---- MODULE Spec2Model ----
(***************************************************************************)
(* Crypto inheritance system: the CryptoInheritance ledger contract, the    *)
(* MockERC20 token it moves, and the backend trigger pipeline (webhook      *)
(* intake, delayed execution, status broadcast).                            *)
(***************************************************************************)
EXTENDS Integers, Sequences, FiniteSets, TLC

\* ------------------------------------------------------------------ bounds

\* Token units minted to the deployer (deploy.js mints parseEther("1000000");
\* the model scales the supply down).
Supply == 2

\* External events the pipeline sees in one run: notifications it accepts,
\* approval requests it sends on, and transactions users send on their own.
MaxEvents == 3

\* ---------------------------------------------------------------- accounts

ZeroAddress == "0x0"

\* Hardhat account #0 (deployer of both contracts), Hardhat account #1, and an
\* address that is no Hardhat account.
Account0 == "account0"
Account1 == "account1"
Stranger == "stranger"

Accounts == {Account0, Account1, Stranger}

\* The accounts that sign transactions of their own: nobody holds the key of
\* Stranger, which only receives tokens and is named in notifications.
Callers == {Account0, Account1}

Addresses == Accounts \cup {ZeroAddress}

\* Token addresses a caller may pass to triggerInheritance: the deployed
\* MockERC20, an address without code, and a token whose transferFrom
\* returns false.
MockERC20 == "MockERC20"
NoCode == "NoCode"
RejectingToken == "RejectingToken"

TokenAddresses == {MockERC20, NoCode, RejectingToken}

\* ------------------------------------------------------------------- state

VARIABLES
  owner,             \* Ownable._owner
  inheritor,         \* CryptoInheritance.inheritor
  isTriggered,       \* CryptoInheritance.isTriggered
  paused,            \* Pausable._paused
  balances,          \* MockERC20 balances, per account
  allowances,        \* MockERC20 allowance of each account toward CryptoInheritance
  transfers,         \* the token transfers the contract has made: [from, to, value]
  lastCall,          \* the contract call the latest step made: [op, result]
  processingStatus,  \* server.js processingStatus map; "none" is an absent key
  cycles,            \* per wallet key, the delayed executions scheduled or running
  lastBroadcast,     \* the statusUpdate the latest step emitted: [wallet, payload]
  lastResponse,      \* the status code the latest step answered a webhook with
  accepted,          \* notifications acknowledged with 200
  started,           \* contractService.triggerInheritance invocations started
  approvals,         \* POST /approve-tokens requests whose approval is in flight
  events,            \* external events so far
  subscribed,        \* the rooms (wallet keys) the listener's socket has joined
  lastQuery          \* the answer to the most recent GET /status: [code, status]

chainVars == <<owner, inheritor, isTriggered, paused, balances, allowances, transfers>>

pipelineVars == <<processingStatus, cycles, accepted, started, approvals>>

clientVars == <<subscribed, lastQuery>>

vars ==
  <<owner, inheritor, isTriggered, paused, balances, allowances, transfers,
    lastCall, processingStatus, cycles, lastBroadcast, lastResponse, accepted, started,
    approvals, events, subscribed, lastQuery>>

Call(op, result) == [op |-> op, result |-> result]

\* What a step that makes no contract call, emits no statusUpdate or answers
\* no webhook leaves in lastCall, lastBroadcast and lastResponse.
NoCall == Call("none", "none")

NoBroadcast == [wallet |-> "none", payload |-> "none"]

NoResponse == 0

NoQuery == [code |-> NoResponse, status |-> "none"]

\* ------------------------------------------------------------- MockERC20

\* ERC20.approve(spender = CryptoInheritance, value) sent by caller.
approve(caller, value) ==
  /\ lastCall' = Call("approve", "ok")
  /\ allowances' = [allowances EXCEPT ![caller] = value]
  /\ UNCHANGED <<owner, inheritor, isTriggered, paused, balances, transfers>>

transferResult(caller, to, value) ==
  IF to = ZeroAddress THEN "ERC20InvalidReceiver"
  ELSE IF balances[caller] < value THEN "ERC20InsufficientBalance"
  ELSE "ok"

\* The balances when a transfer is recorded and nothing moves.
Kept(from, to, value) == balances

\* The balances when value is credited to to and not debited from from.
Minted(from, to, value) == [balances EXCEPT ![to] = @ + value]

\* The balances after value moves from from to to.
Moved(from, to, value) ==
  IF from = to THEN balances
  ELSE [balances EXCEPT ![from] = @ - value, ![to] = @ + value]

\* ERC20.transfer(to, value) sent by caller.
transfer(caller, to, value) ==
  LET r == transferResult(caller, to, value) IN
  /\ lastCall' = Call("transfer", r)
  /\ balances' = IF r = "ok" THEN Moved(caller, to, value) ELSE balances
  /\ UNCHANGED <<owner, inheritor, isTriggered, paused, allowances, transfers>>

\* ERC20.transferFrom(from, to, value) with CryptoInheritance as the spender:
\* the allowance is spent first, then the balance moves.
transferFromResult(from, to, value) ==
  IF allowances[from] < value THEN "ERC20InsufficientAllowance"
  ELSE IF to = ZeroAddress THEN "ERC20InvalidReceiver"
  ELSE IF balances[from] < value THEN "ERC20InsufficientBalance"
  ELSE "ok"

\* --------------------------------------------------------- CryptoInheritance

onlyOwner(caller) == caller = owner

\* nominateInheritor without its zero-address check.
nominateAnyResult(caller, newInheritor) ==
  IF paused THEN "EnforcedPause" ELSE "ok"

nominateInheritorResult(caller, newInheritor) ==
  IF paused THEN "EnforcedPause"
  ELSE IF newInheritor = ZeroAddress THEN "Inheritor cannot be zero address"
  ELSE "ok"

nominateInheritor(caller, newInheritor) ==
  LET r == nominateInheritorResult(caller, newInheritor) IN
  /\ lastCall' = Call("nominateInheritor", r)
  /\ inheritor' = IF r = "ok" THEN newInheritor ELSE inheritor
  /\ UNCHANGED <<owner, isTriggered, paused, balances, allowances, transfers>>

\* A cancellation that also clears the triggered flag.
resetNomination(caller) ==
  /\ lastCall' = Call("cancelNomination", IF paused THEN "EnforcedPause" ELSE "ok")
  /\ inheritor' = IF paused THEN inheritor ELSE ZeroAddress
  /\ isTriggered' = IF paused THEN isTriggered ELSE FALSE
  /\ UNCHANGED <<owner, paused, balances, allowances, transfers>>

\* cancelNomination without the whenNotPaused modifier.
cancelAlwaysResult(caller) == "ok"

cancelNominationResult(caller) ==
  IF paused THEN "EnforcedPause" ELSE "ok"

cancelNomination(caller) ==
  LET r == cancelNominationResult(caller) IN
  /\ lastCall' = Call("cancelNomination", r)
  /\ inheritor' = IF r = "ok" THEN ZeroAddress ELSE inheritor
  /\ UNCHANGED <<owner, isTriggered, paused, balances, allowances, transfers>>

\* A balance read that reports one unit for every holder.
oneUnit(tokenAddress, account) ==
  IF tokenAddress = MockERC20 /\ balances[account] = 0 THEN 0 ELSE 1

\* token.balanceOf(msg.sender) as triggerInheritance reads it.
balanceOf(tokenAddress, account) ==
  IF tokenAddress = MockERC20 THEN balances[account] ELSE 1

\* triggerInheritance without the notTriggered modifier.
triggerAgainResult(caller, tokenAddress) ==
  IF paused THEN "EnforcedPause"
  ELSE IF inheritor = ZeroAddress THEN "No inheritor nominated"
  ELSE IF tokenAddress = NoCode THEN "call to non-contract account"
  ELSE IF balances[caller] = 0 THEN "No tokens to transfer"
  ELSE IF tokenAddress = RejectingToken THEN "Token transfer failed"
  ELSE IF allowances[caller] < balances[caller] THEN "ERC20InsufficientAllowance"
  ELSE "ok"

\* triggerInheritance without its nominee check.
triggerUnnominatedResult(caller, tokenAddress) ==
  IF paused THEN "EnforcedPause"
  ELSE IF isTriggered THEN "Inheritance already triggered"
  ELSE IF tokenAddress = NoCode THEN "call to non-contract account"
  ELSE IF balanceOf(tokenAddress, caller) = 0 THEN "No tokens to transfer"
  ELSE IF tokenAddress = RejectingToken THEN "Token transfer failed"
  ELSE transferFromResult(caller, inheritor, balanceOf(tokenAddress, caller))

\* triggerInheritance without its balance check.
triggerEmptyResult(caller, tokenAddress) ==
  IF paused THEN "EnforcedPause"
  ELSE IF isTriggered THEN "Inheritance already triggered"
  ELSE IF inheritor = ZeroAddress THEN "No inheritor nominated"
  ELSE IF tokenAddress = NoCode THEN "call to non-contract account"
  ELSE IF tokenAddress = RejectingToken THEN "Token transfer failed"
  ELSE transferFromResult(caller, inheritor, balanceOf(tokenAddress, caller))

triggerInheritanceResult(caller, tokenAddress) ==
  IF paused THEN "EnforcedPause"
  ELSE IF isTriggered THEN "Inheritance already triggered"
  ELSE IF inheritor = ZeroAddress THEN "No inheritor nominated"
  ELSE IF tokenAddress = NoCode THEN "call to non-contract account"
  ELSE IF balanceOf(tokenAddress, caller) = 0 THEN "No tokens to transfer"
  ELSE IF tokenAddress = RejectingToken THEN "Token transfer failed"
  ELSE transferFromResult(caller, inheritor, balanceOf(tokenAddress, caller))

\* A trigger that sets the flag before the token call and keeps it when the
\* call is rejected.
flagThenTransfer(caller, tokenAddress) ==
  LET r == triggerInheritanceResult(caller, tokenAddress)
      balance == balanceOf(tokenAddress, caller)
      rejected == {"Token transfer failed", "ERC20InsufficientAllowance",
                   "ERC20InsufficientBalance", "ERC20InvalidReceiver"}
  IN
  /\ lastCall' = Call("triggerInheritance", r)
  /\ IF r = "ok"
       THEN /\ allowances' = [allowances EXCEPT ![caller] = @ - balance]
            /\ balances' = Moved(caller, inheritor, balance)
            /\ transfers' = Append(transfers, [from |-> caller, to |-> inheritor,
                                                value |-> balance])
       ELSE UNCHANGED <<allowances, balances, transfers>>
  /\ isTriggered' = (isTriggered \/ r = "ok" \/ r \in rejected)
  /\ UNCHANGED <<owner, inheritor, paused>>

\* A trigger that takes the tokens of the owner, whoever calls.
triggerFromOwner(caller, tokenAddress) ==
  LET r == triggerInheritanceResult(caller, tokenAddress) IN
  /\ lastCall' = Call("triggerInheritance", r)
  /\ IF r = "ok"
       THEN /\ balances' = Moved(owner, inheritor, balances[owner])
            /\ transfers' = Append(transfers, [from |-> owner, to |-> inheritor,
                                                value |-> balances[owner]])
            /\ isTriggered' = TRUE
       ELSE UNCHANGED <<balances, transfers, isTriggered>>
  /\ UNCHANGED <<owner, inheritor, paused, allowances>>

triggerInheritance(caller, tokenAddress) ==
  LET r == triggerInheritanceResult(caller, tokenAddress)
      balance == balanceOf(tokenAddress, caller)
  IN
  /\ lastCall' = Call("triggerInheritance", r)
  /\ IF r = "ok"
       THEN /\ allowances' = [allowances EXCEPT ![caller] = @ - balance]
            /\ balances' = Moved(caller, inheritor, balance)
            /\ transfers' = Append(transfers, [from |-> caller, to |-> inheritor,
                                                value |-> balance])
            /\ isTriggered' = TRUE
       ELSE UNCHANGED <<allowances, balances, transfers, isTriggered>>
  /\ UNCHANGED <<owner, inheritor, paused>>

\* pause without the onlyOwner modifier.
pauseAnyResult(caller) ==
  IF paused THEN "EnforcedPause" ELSE "ok"

pauseResult(caller) ==
  IF ~onlyOwner(caller) THEN "OwnableUnauthorizedAccount"
  ELSE IF paused THEN "EnforcedPause"
  ELSE "ok"

pause(caller) ==
  LET r == pauseResult(caller) IN
  /\ lastCall' = Call("pause", r)
  /\ paused' = IF r = "ok" THEN TRUE ELSE paused
  /\ UNCHANGED <<owner, inheritor, isTriggered, balances, allowances, transfers>>

unpauseResult(caller) ==
  IF ~onlyOwner(caller) THEN "OwnableUnauthorizedAccount"
  ELSE IF ~paused THEN "ExpectedPause"
  ELSE "ok"

unpause(caller) ==
  LET r == unpauseResult(caller) IN
  /\ lastCall' = Call("unpause", r)
  /\ paused' = IF r = "ok" THEN FALSE ELSE paused
  /\ UNCHANGED <<owner, inheritor, isTriggered, balances, allowances, transfers>>

transferOwnershipResult(caller, newOwner) ==
  IF ~onlyOwner(caller) THEN "OwnableUnauthorizedAccount"
  ELSE IF newOwner = ZeroAddress THEN "OwnableInvalidOwner"
  ELSE "ok"

transferOwnership(caller, newOwner) ==
  LET r == transferOwnershipResult(caller, newOwner) IN
  /\ lastCall' = Call("transferOwnership", r)
  /\ owner' = IF r = "ok" THEN newOwner ELSE owner
  /\ UNCHANGED <<inheritor, isTriggered, paused, balances, allowances, transfers>>

\* ------------------------------------------------------- address strings

\* Strings are sequences of characters. The texts of the wallet inputs:
Account0Address ==
  <<"0","x","f","3","9","F","d","6","e","5","1","a","a","d","8","8","F","6","F","4","c","e","6","a","B","8","8","2","7","2","7","9","c","f","f","F","b","9","2","2","6","6">>

Account1Address ==
  <<"0","x","7","0","9","9","7","9","7","0","C","5","1","8","1","2","d","c","3","A","0","1","0","C","7","d","0","1","b","5","0","e","0","d","1","7","d","c","7","9","C","8">>

StrangerAddress ==
  <<"0","x","1","2","3","4","5","6","7","8","9","0","1","2","3","4","5","6","7","8","9","0","1","2","3","4","5","6","7","8","9","0","1","2","3","4","5","6","7","8","9","0">>

InvalidAddress ==
  <<"i","n","v","a","l","i","d","-","a","d","d","r","e","s","s">>

\* ------------------------------------------------------ ledger specification

\* The state after deploy.js: account #0 deployed both contracts, holds the
\* whole supply and owns the inheritance contract.
InitChain ==
  /\ owner = Account0
  /\ inheritor = ZeroAddress
  /\ isTriggered = FALSE
  /\ paused = FALSE
  /\ balances = [a \in Accounts |-> IF a = Account0 THEN Supply ELSE 0]
  /\ allowances = [a \in Accounts |-> 0]
  /\ transfers = << >>
  /\ lastCall = Call("deploy", "ok")

\* A step of the chain alone: the backend does nothing.
OffChainIdle ==
  /\ lastBroadcast' = NoBroadcast
  /\ lastResponse' = NoResponse
  /\ UNCHANGED <<pipelineVars, events, clientVars>>

Approve ==
  /\ \E c \in Callers, v \in {0, Supply} : approve(c, v)
  /\ OffChainIdle

Transfer ==
  /\ \E c \in Callers, to \in Addresses : transfer(c, to, 1)
  /\ OffChainIdle

NominateInheritor ==
  /\ \E c \in Callers, n \in Addresses : nominateInheritor(c, n)
  /\ OffChainIdle

CancelNomination ==
  /\ \E c \in Callers : cancelNomination(c)
  /\ OffChainIdle

TriggerInheritance ==
  /\ \E c \in Callers, t \in TokenAddresses : triggerInheritance(c, t)
  /\ OffChainIdle

Pause ==
  /\ \E c \in Callers : pause(c)
  /\ OffChainIdle

Unpause ==
  /\ \E c \in Callers : unpause(c)
  /\ OffChainIdle

TransferOwnership ==
  /\ \E c \in Callers, n \in Callers \cup {ZeroAddress} : transferOwnership(c, n)
  /\ OffChainIdle

NextLedger ==
  \/ Approve
  \/ Transfer
  \/ NominateInheritor
  \/ CancelNomination
  \/ TriggerInheritance
  \/ Pause
  \/ Unpause
  \/ TransferOwnership

\* ------------------------------------------------------------ wallet inputs

\* The walletAddress values a request may carry, and the text of each.
WalletInputs ==
  {"account0", "account0-lowercase", "account1", "stranger", "invalid", "missing"}

HexChars ==
  {"0", "1", "2", "3", "4", "5", "6", "7", "8", "9",
   "a", "b", "c", "d", "e", "f", "A", "B", "C", "D", "E", "F"}

LowerOf(ch) ==
  CASE ch = "A" -> "a" [] ch = "B" -> "b" [] ch = "C" -> "c"
    [] ch = "D" -> "d" [] ch = "E" -> "e" [] ch = "F" -> "f"
    [] OTHER -> ch

toLowerCase(s) == [i \in 1..Len(s) |-> LowerOf(s[i])]

Text(w) ==
  CASE w = "account0" -> Account0Address
    [] w = "account0-lowercase" -> toLowerCase(Account0Address)
    [] w = "account1" -> Account1Address
    [] w = "stranger" -> StrangerAddress
    [] w = "invalid" -> InvalidAddress
    [] OTHER -> << >>

\* /^0x[a-fA-F0-9]{40}$/
isValidEthereumAddress(s) ==
  /\ Len(s) = 42
  /\ s[1] = "0"
  /\ s[2] = "x"
  /\ \A i \in 3..42 : s[i] \in HexChars

\* The inputs that pass validation: the keys the status map can hold.
WalletKeys == {w \in WalletInputs : isValidEthereumAddress(Text(w))}

\* Whether an input is falsy (undefined or the empty string).
missing == [w \in WalletInputs |-> Len(Text(w)) = 0]

AddressText(a) ==
  CASE a = Account0 -> Account0Address
    [] a = Account1 -> Account1Address
    [] OTHER -> StrangerAddress

\* The on-chain account an address string names (addresses compare without case).
AccountOf(w) ==
  CHOOSE a \in Accounts : toLowerCase(AddressText(a)) = toLowerCase(Text(w))

\* The Hardhat accounts whose private keys contractService holds (the model
\* keeps the first two of the ten).
hardhatAddresses == <<Account0Address, Account1Address>>

\* A lookup that finds a signing key for every address.
firstIndex(s) == 0

\* hardhatAddresses.findIndex(addr => addr.toLowerCase() === walletAddress.toLowerCase())
findIndex(s) ==
  LET hits == {i \in 1..Len(hardhatAddresses) :
                 toLowerCase(hardhatAddresses[i]) = toLowerCase(s)}
  IN IF hits = {} THEN -1
     ELSE (CHOOSE i \in hits : \A j \in hits : i <= j) - 1

\* Per wallet key: the account it names, and the index of its signing key.
account == [w \in WalletKeys |-> AccountOf(w)]

signerIndex == [w \in WalletKeys |-> findIndex(Text(w))]

\* ---------------------------------------------------------- status broadcast

\* A statusUpdate payload: nomineeAddress is an address, "null" or "undefined";
\* no payload the server builds has a tokenAddress key.
Payload(status, hasTransactionHash, nomineeAddress, error) ==
  [status |-> status, transactionHash |-> hasTransactionHash,
   tokenAddress |-> "undefined", nomineeAddress |-> nomineeAddress, error |-> error]

\* A broadcast that emits nothing.
muteStatus(w, payload) == lastBroadcast' = NoBroadcast

broadcastStatus(w, payload) ==
  lastBroadcast' = [wallet |-> w, payload |-> payload]

\* ------------------------------------------------------------ webhook intake

\* A status read without the 'idle' default.
storedStatus(w) == processingStatus[w]

\* GET /status/:walletAddress for a well-formed address.
getStatus(w) == IF processingStatus[w] = "none" THEN "idle" ELSE processingStatus[w]

\* The intake without its processing guard.
unguardedCode(w, hasEventType) ==
  IF missing[w] THEN 400
  ELSE IF ~hasEventType THEN 400
  ELSE IF w \notin WalletKeys THEN 400
  ELSE 200

\* The intake without its eventType check.
anyEventCode(w, hasEventType) ==
  IF missing[w] THEN 400
  ELSE IF w \notin WalletKeys THEN 400
  ELSE IF processingStatus[w] = "processing" THEN 409
  ELSE 200

\* The status code of POST /webhook/death-notification.
notificationCode(w, hasEventType) ==
  IF missing[w] THEN 400
  ELSE IF ~hasEventType THEN 400
  ELSE IF w \notin WalletKeys THEN 400
  ELSE IF processingStatus[w] = "processing" THEN 409
  ELSE 200

\* A delayed execution that has no timer to wait for and never starts.
TimerlessCycle ==
  [pc |-> "getInheritor", inheritor |-> ZeroAddress, balance |-> 0, allowance |-> 0]

\* The body of the 200 answer: the delay the acknowledgement reports, in
\* milliseconds.
responsePayload == [success |-> TRUE, processingDelay |-> 6000]

\* The delay the handler passes to setTimeout, in milliseconds.
timerDelay == 6000

\* A delayed execution: its position, and the inheritor, balance and allowance
\* it read.
NewCycle == [pc |-> "timer", inheritor |-> ZeroAddress, balance |-> 0, allowance |-> 0]

DeathNotification(w, hasEventType) ==
  LET code == notificationCode(w, hasEventType) IN
  /\ lastResponse' = code
  /\ IF code = 200
       THEN /\ events < MaxEvents
            /\ events' = events + 1
            /\ processingStatus' = [processingStatus EXCEPT ![w] = "processing"]
            /\ broadcastStatus(w, Payload("processing", FALSE, "undefined", "none"))
            /\ cycles' = [cycles EXCEPT ![w] = Append(@, NewCycle)]
            /\ accepted' = accepted + 1
       ELSE /\ lastBroadcast' = NoBroadcast
            /\ UNCHANGED <<processingStatus, cycles, accepted, events>>
  /\ lastCall' = NoCall
  /\ UNCHANGED <<chainVars, started, approvals, clientVars>>

\* ---------------------------------------------------------- delayed execution

\* A step of a delayed execution that sends no transaction and answers no
\* request.
OffChain ==
  /\ lastCall' = NoCall
  /\ lastResponse' = NoResponse
  /\ UNCHANGED chainVars

RemoveAt(s, i) == SubSeq(s, 1, i - 1) \o SubSeq(s, i + 1, Len(s))

\* What contractService.triggerInheritance returns.
Failure(error, nomineeAddress) ==
  [success |-> FALSE, error |-> error, tokenAddress |-> "undefined",
   nomineeAddress |-> nomineeAddress]

Success(nomineeAddress) ==
  [success |-> TRUE, error |-> "none", tokenAddress |-> MockERC20,
   nomineeAddress |-> nomineeAddress]

\* An execution that ends by dropping the status record.
dropStatus(w, i, result) ==
  /\ processingStatus' = [processingStatus EXCEPT ![w] = "none"]
  /\ lastBroadcast' = NoBroadcast
  /\ cycles' = [cycles EXCEPT ![w] = RemoveAt(@, i)]

\* An execution whose error escapes: it ends and the status stays as it is.
escape(w, i, result) ==
  /\ lastBroadcast' = NoBroadcast
  /\ cycles' = [cycles EXCEPT ![w] = RemoveAt(@, i)]
  /\ UNCHANGED processingStatus

\* An execution that, on failure, reports it and schedules itself again.
retry(w, i, result) ==
  /\ processingStatus' =
       [processingStatus EXCEPT ![w] = IF result.success THEN "completed" ELSE "failed"]
  /\ broadcastStatus(w, Payload(IF result.success THEN "completed" ELSE "failed",
                                result.success, result.nomineeAddress, result.error))
  /\ cycles' = [cycles EXCEPT ![w] = IF result.success THEN RemoveAt(@, i)
                                     ELSE [@ EXCEPT ![i] = NewCycle]]

\* The timer callback once triggerInheritance has returned: the status is set
\* and broadcast, and the execution is over.
onResult(w, i, result) ==
  /\ processingStatus' =
       [processingStatus EXCEPT ![w] = IF result.success THEN "completed" ELSE "failed"]
  /\ broadcastStatus(w, Payload(IF result.success THEN "completed" ELSE "failed",
                                result.success, result.nomineeAddress, result.error))
  /\ cycles' = [cycles EXCEPT ![w] = RemoveAt(@, i)]

\* The execution goes on to its next await.
goTo(w, i, next) ==
  /\ cycles' = [cycles EXCEPT ![w][i] = next]
  /\ lastBroadcast' = NoBroadcast
  /\ UNCHANGED processingStatus

\* The timer of an accepted notification elapses: triggerInheritance starts
\* and sends its first read.
TimerFires(w, i) ==
  /\ cycles[w][i].pc = "timer"
  /\ started' = started + 1
  /\ goTo(w, i, [cycles[w][i] EXCEPT !.pc = "getInheritor"])
  /\ OffChain
  /\ UNCHANGED <<accepted, approvals, events, clientVars>>

\* await cryptoInheritanceContract.getInheritor()
GetInheritor(w, i) ==
  /\ cycles[w][i].pc = "getInheritor"
  /\ \E rpcOk \in BOOLEAN :
       IF ~rpcOk \/ inheritor = ZeroAddress
         THEN onResult(w, i, Failure("No inheritor nominated for this wallet", "null"))
         ELSE goTo(w, i, [cycles[w][i] EXCEPT !.pc = "balanceOf", !.inheritor = inheritor])
  /\ OffChain
  /\ UNCHANGED <<accepted, started, approvals, events, clientVars>>

\* await mockTokenContract.balanceOf(walletAddress), then the signer lookup.
BalanceOf(w, i) ==
  /\ cycles[w][i].pc = "balanceOf"
  /\ \E rpcOk \in BOOLEAN :
       IF ~rpcOk
         THEN onResult(w, i, Failure("rpc error", "null"))
       ELSE IF balances[account[w]] = 0
         THEN onResult(w, i, Failure("No tokens to transfer for this wallet", "undefined"))
       ELSE IF signerIndex[w] = -1
         THEN onResult(w, i, Failure("Backend does not have signing authority for this wallet",
                                     "undefined"))
       ELSE goTo(w, i, [cycles[w][i] EXCEPT !.pc = "allowance",
                                            !.balance = balances[account[w]]])
  /\ OffChain
  /\ UNCHANGED <<accepted, started, approvals, events, clientVars>>

\* An execution that goes from its balance read straight to the trigger.
noBridge(w, i) ==
  /\ cycles[w][i].pc = "allowance"
  /\ cycles' = [cycles EXCEPT ![w][i].pc = "triggerPending"]
  /\ lastBroadcast' = NoBroadcast
  /\ lastCall' = NoCall
  /\ lastResponse' = NoResponse
  /\ UNCHANGED <<chainVars, processingStatus, accepted, started, approvals, events, clientVars>>

\* await mockTokenContract.allowance(walletAddress, contract); when it is short
\* of the balance, approveTokens sends an approval.
Allowance(w, i) ==
  /\ cycles[w][i].pc = "allowance"
  /\ \E rpcOk \in BOOLEAN :
       IF ~rpcOk
         THEN onResult(w, i, Failure("rpc error", "null"))
       ELSE IF allowances[account[w]] < cycles[w][i].balance
         THEN goTo(w, i, [cycles[w][i] EXCEPT !.pc = "approvePending",
                                              !.allowance = allowances[account[w]]])
       ELSE goTo(w, i, [cycles[w][i] EXCEPT !.pc = "triggerPending",
                                            !.allowance = allowances[account[w]]])
  /\ OffChain
  /\ UNCHANGED <<accepted, started, approvals, events, clientVars>>

\* The approval of approveTokens(walletAddress, balance) is mined and its
\* receipt awaited; sending it throws, or the transaction is mined and
\* awaiting its receipt throws.
ApproveMined(w, i) ==
  /\ cycles[w][i].pc = "approvePending"
  /\ \E rpcOk \in BOOLEAN, receiptOk \in BOOLEAN :
       IF ~rpcOk
         THEN /\ onResult(w, i, Failure("Failed to approve tokens", "undefined"))
              /\ lastCall' = NoCall
              /\ UNCHANGED chainVars
         ELSE /\ approve(account[w], cycles[w][i].balance)
              /\ IF receiptOk
                   THEN goTo(w, i, [cycles[w][i] EXCEPT !.pc = "verifyAllowance"])
                   ELSE onResult(w, i, Failure("Failed to approve tokens", "undefined"))
  /\ lastResponse' = NoResponse
  /\ UNCHANGED <<accepted, started, approvals, events, clientVars>>

\* After the one-second wait: the allowance is read again.
VerifyAllowance(w, i) ==
  /\ cycles[w][i].pc = "verifyAllowance"
  /\ \E rpcOk \in BOOLEAN :
       IF ~rpcOk
         THEN onResult(w, i, Failure("rpc error", "null"))
       ELSE IF allowances[account[w]] < cycles[w][i].balance
         THEN onResult(w, i, Failure("Allowance is still insufficient after approval attempt",
                                     "undefined"))
       ELSE goTo(w, i, [cycles[w][i] EXCEPT !.pc = "triggerPending"])
  /\ OffChain
  /\ UNCHANGED <<accepted, started, approvals, events, clientVars>>

\* inheritanceAsDeceased.triggerInheritance(MockERC20) is mined and its receipt
\* awaited; a revert (at gas estimation or in the block) or a send error
\* throws, and so does tx.wait() when the receipt of a mined transaction
\* cannot be fetched.
TriggerMined(w, i) ==
  /\ cycles[w][i].pc = "triggerPending"
  /\ \E rpcOk \in BOOLEAN, receiptOk \in BOOLEAN :
       IF ~rpcOk
         THEN /\ onResult(w, i, Failure("rpc error", cycles[w][i].inheritor))
              /\ lastCall' = NoCall
              /\ UNCHANGED chainVars
         ELSE /\ triggerInheritance(account[w], MockERC20)
              /\ IF triggerInheritanceResult(account[w], MockERC20) # "ok"
                   THEN onResult(w, i, Failure(triggerInheritanceResult(account[w], MockERC20),
                                               cycles[w][i].inheritor))
                 ELSE IF receiptOk
                   THEN onResult(w, i, Success(cycles[w][i].inheritor))
                 ELSE onResult(w, i, Failure("rpc error", cycles[w][i].inheritor))
  /\ lastResponse' = NoResponse
  /\ UNCHANGED <<accepted, started, approvals, events, clientVars>>

\* A step of the delayed execution i of wallet key w.
CycleStepAt(w, i) ==
  \/ TimerFires(w, i)
  \/ GetInheritor(w, i)
  \/ BalanceOf(w, i)
  \/ Allowance(w, i)
  \/ ApproveMined(w, i)
  \/ VerifyAllowance(w, i)
  \/ TriggerMined(w, i)

CycleStep(w) == \E i \in 1..Len(cycles[w]) : CycleStepAt(w, i)

\* ------------------------------------------------------------ approval helper

\* POST /approve-tokens up to the point where contractService.approveTokens
\* has a signer: 400 for a missing or malformed field and for a wallet
\* without signing authority; 0 otherwise (no response yet).
approveTokensCode(w, amount) ==
  IF missing[w] THEN 400
  ELSE IF amount = 0 THEN 400
  ELSE IF w \notin WalletKeys THEN 400
  ELSE IF signerIndex[w] = -1 THEN 400
  ELSE 0

ApproveTokens(w, amount) ==
  LET code == approveTokensCode(w, amount) IN
  /\ IF code = 400
       THEN UNCHANGED <<approvals, events>>
       ELSE /\ events < MaxEvents
            /\ events' = events + 1
            /\ approvals' = Append(approvals, [wallet |-> w, amount |-> amount])
  /\ OffChain
  /\ lastBroadcast' = NoBroadcast
  /\ UNCHANGED <<processingStatus, cycles, accepted, started, clientVars>>

\* The approval of a request is mined and its receipt awaited, or sending it
\* throws.
ApproveTokensMined(j) ==
  /\ \E rpcOk \in BOOLEAN :
       IF rpcOk
         THEN approve(account[approvals[j].wallet], approvals[j].amount)
         ELSE lastCall' = NoCall /\ UNCHANGED chainVars
  /\ approvals' = RemoveAt(approvals, j)
  /\ lastBroadcast' = NoBroadcast
  /\ lastResponse' = NoResponse
  /\ UNCHANGED <<processingStatus, cycles, accepted, started, events, clientVars>>

\* ------------------------------------------------------------------- clients

\* The model has one listener socket.
Listener == "listener"

\* An emit to every connected socket, whatever rooms it joined.
allSockets(walletAddress) == {Listener}

\* io.to(walletAddress): the sockets in the room of walletAddress.
room(walletAddress) == IF walletAddress \in subscribed THEN {Listener} ELSE {}

\* The statusUpdates the listener's socket got from the latest step.
received ==
  IF lastBroadcast # NoBroadcast /\ Listener \in room(lastBroadcast.wallet)
    THEN {lastBroadcast.payload}
    ELSE {}

\* A step of a client: the pipeline and the chain are not involved.
ClientOnly ==
  /\ lastCall' = NoCall
  /\ lastBroadcast' = NoBroadcast
  /\ lastResponse' = NoResponse
  /\ UNCHANGED <<chainVars, pipelineVars, events>>

\* socket.on('subscribe', walletAddress)
subscribe(w) ==
  /\ subscribed' = IF w \in WalletKeys THEN subscribed \cup {w} ELSE subscribed
  /\ UNCHANGED lastQuery
  /\ ClientOnly

\* The socket disconnects and leaves its rooms.
disconnect ==
  /\ subscribed' = {}
  /\ UNCHANGED lastQuery
  /\ ClientOnly

\* GET /status/:walletAddress
statusEndpoint(w) ==
  /\ lastQuery' = IF w \in WalletKeys THEN [code |-> 200, status |-> getStatus(w)]
                  ELSE [code |-> 400, status |-> "none"]
  /\ UNCHANGED subscribed
  /\ ClientOnly

\* ------------------------------------------------------------- specification

InitPipeline ==
  /\ processingStatus = [w \in WalletKeys |-> "none"]
  /\ cycles = [w \in WalletKeys |-> << >>]
  /\ lastBroadcast = NoBroadcast
  /\ lastResponse = NoResponse
  /\ accepted = 0
  /\ started = 0
  /\ approvals = << >>
  /\ events = 0
  /\ subscribed = {}
  /\ lastQuery = NoQuery

Init == InitChain /\ InitPipeline

SpecLedger == Init /\ [][NextLedger]_vars

Notify == \E w \in WalletInputs, e \in BOOLEAN : DeathNotification(w, e)

Timer == \E w \in WalletKeys : \E i \in 1..Len(cycles[w]) : TimerFires(w, i)

ReadInheritor == \E w \in WalletKeys : \E i \in 1..Len(cycles[w]) : GetInheritor(w, i)

ReadBalance == \E w \in WalletKeys : \E i \in 1..Len(cycles[w]) : BalanceOf(w, i)

ReadAllowance == \E w \in WalletKeys : \E i \in 1..Len(cycles[w]) : Allowance(w, i)

CycleApprove == \E w \in WalletKeys : \E i \in 1..Len(cycles[w]) : ApproveMined(w, i)

ReadNewAllowance == \E w \in WalletKeys : \E i \in 1..Len(cycles[w]) : VerifyAllowance(w, i)

CycleTrigger == \E w \in WalletKeys : \E i \in 1..Len(cycles[w]) : TriggerMined(w, i)

ApproveRequest == \E w \in WalletInputs, v \in {0, Supply} : ApproveTokens(w, v)

ApproveRequestMined == \E j \in 1..Len(approvals) : ApproveTokensMined(j)

NextPipeline ==
  \/ Notify
  \/ Timer
  \/ ReadInheritor
  \/ ReadBalance
  \/ ReadAllowance
  \/ CycleApprove
  \/ ReadNewAllowance
  \/ CycleTrigger
  \/ ApproveRequest
  \/ ApproveRequestMined

\* Transactions users send on their own while the pipeline runs.
UserCall(call) ==
  /\ events < MaxEvents
  /\ events' = events + 1
  /\ call
  /\ lastBroadcast' = NoBroadcast
  /\ lastResponse' = NoResponse
  /\ UNCHANGED <<pipelineVars, clientVars>>

UserApprove == UserCall(approve(Account0, Supply))

UserTransfer == UserCall(\E to \in {Account1, Stranger} : transfer(Account0, to, 1))

UserNominate == UserCall(\E n \in {Account1, Stranger} : nominateInheritor(Account0, n))

UserCancel == UserCall(cancelNomination(Account0))

UserTrigger == UserCall(triggerInheritance(Account0, MockERC20))

UserPause == UserCall(pause(owner))

UserUnpause == UserCall(unpause(owner))

NextUser ==
  \/ UserApprove
  \/ UserTransfer
  \/ UserNominate
  \/ UserCancel
  \/ UserTrigger
  \/ UserPause
  \/ UserUnpause

Next == NextPipeline \/ NextUser

Spec == Init /\ [][Next]_vars

\* The state after deploy.js and two transactions of account #0: Stranger is
\* nominated and one token unit has gone to account #1.
InitFunded ==
  /\ owner = Account0
  /\ inheritor = Stranger
  /\ isTriggered = FALSE
  /\ paused = FALSE
  /\ balances = [a \in Accounts |->
                   IF a = Account0 THEN Supply - 1 ELSE IF a = Account1 THEN 1 ELSE 0]
  /\ allowances = [a \in Accounts |-> 0]
  /\ transfers = << >>
  /\ lastCall = Call("transfer", "ok")
  /\ InitPipeline

\* The pipeline when two accounts with signing keys hold tokens.
SpecFunded == InitFunded /\ [][Next]_vars

\* The runs in which requests name one wallet whose key the backend holds,
\* one whose key it does not hold, and no well-formed wallet.
LiveInputs == {"account0", "stranger", "invalid", "missing"}

NotifyLive == \E w \in LiveInputs, e \in BOOLEAN : DeathNotification(w, e)

ApproveRequestLive == \E w \in LiveInputs, v \in {0, Supply} : ApproveTokens(w, v)

NextLive ==
  \/ NotifyLive
  \/ Timer
  \/ ReadInheritor
  \/ ReadBalance
  \/ ReadAllowance
  \/ CycleApprove
  \/ ReadNewAllowance
  \/ CycleTrigger
  \/ ApproveRequestLive
  \/ ApproveRequestMined
  \/ NextUser

\* The event loop runs every timer that has elapsed and every continuation
\* whose awaited call has returned or thrown.
SpecLive ==
  Init /\ [][NextLive]_vars /\ \A w \in WalletKeys : WF_vars(CycleStep(w))

\* The addresses a client names: the wallet whose key the backend holds, and
\* a malformed one.
ClientInputs == {"account0", "invalid"}

Subscribe == \E w \in ClientInputs : subscribe(w)

Disconnect == disconnect

QueryStatus == \E w \in ClientInputs : statusEndpoint(w)

NextClients ==
  \/ NextLive
  \/ Subscribe
  \/ Disconnect
  \/ QueryStatus

\* The pipeline with a listener and a status reader.
SpecClients == Init /\ [][NextClients]_vars

\* ------------------------------------------------------------ ledger claims

\* C1: only the owner may nominate, cancel or trigger: a call of
\* nominateInheritor, cancelNomination or triggerInheritance by an account
\* that is not the owner fails as unauthorized and leaves the nominee, the
\* flags and every balance unchanged.
C1_OnlyOwner ==
  [][\A c \in Callers :
       (c # owner /\ (\/ \E n \in Addresses : nominateInheritor(c, n)
                      \/ cancelNomination(c)
                      \/ \E t \in TokenAddresses : triggerInheritance(c, t)))
       => (/\ lastCall'.result = "OwnableUnauthorizedAccount"
           /\ UNCHANGED <<inheritor, isTriggered, paused, balances>>)]_vars

\* The effect C2 states of a trigger by c toward the nominee.
C2_Effect(c) ==
  /\ lastCall' = Call("triggerInheritance", "ok")
  /\ balances'[c] = 0
  /\ balances'[inheritor] = balances[inheritor] + balances[c]
  /\ \A a \in Accounts \ {c, inheritor} : balances'[a] = balances[a]
  /\ isTriggered'

\* The case C2 is about: a nominee is set, the caller holds tokens and has
\* approved at least as many, the contract is unpaused and not triggered.
C2_Case(c) ==
  /\ inheritor # ZeroAddress
  /\ balances[c] > 0
  /\ allowances[c] >= balances[c]
  /\ ~paused
  /\ ~isTriggered

\* C2 as stated: for every non-zero nominee, a trigger in that case moves the
\* caller's whole balance to the nominee, leaves the caller with 0 and sets
\* triggered.
C2_AnyNominee ==
  [][\A c \in Callers :
       (C2_Case(c) /\ triggerInheritance(c, MockERC20)) => C2_Effect(c)]_vars

\* C2: for every nominee other than the caller, a trigger in that case moves
\* the caller's whole balance to the nominee, leaves the caller with 0 and
\* sets triggered; the other balances stay as they are.
C2_OtherNominee ==
  [][\A c \in Callers :
       (C2_Case(c) /\ inheritor # c /\ triggerInheritance(c, MockERC20))
       => C2_Effect(c)]_vars

\* A trigger has just moved the whole supply from account #0 to its nominee.
C2_Triggered ==
  /\ lastCall = Call("triggerInheritance", "ok")
  /\ isTriggered
  /\ transfers = <<[from |-> Account0, to |-> Account1, value |-> Supply]>>
  /\ balances[Account0] = 0
  /\ balances[Account1] = Supply

\* C3: triggered holds exactly when the contract has made one token transfer,
\* no transfer has been made while it does not hold, and a transfer the
\* contract makes moves the whole balance its sender has at that moment to
\* the nominee.
C3_TriggeredIffOneTransfer ==
  /\ [](isTriggered <=> Len(transfers) = 1)
  /\ [](~isTriggered => transfers = << >>)
  /\ [][transfers' # transfers =>
          \E c \in Callers :
            /\ balances[c] > 0
            /\ transfers' = Append(transfers, [from |-> c, to |-> inheritor,
                                                value |-> balances[c]])
            /\ balances' = Moved(c, inheritor, balances[c])]_vars

\* The contract is triggered, its one transfer moved a balance of more than
\* one unit, and other calls have followed.
C3_OneTransfer ==
  /\ isTriggered
  /\ Len(transfers) = 1
  /\ transfers[1].value > 1
  /\ lastCall.op # "triggerInheritance"

\* C4 as stated: once triggered, every trigger call fails with "Inheritance
\* already triggered" and moves no tokens.
C4_AlwaysAlreadyTriggered ==
  [][\A c \in Callers, t \in TokenAddresses :
       (isTriggered /\ triggerInheritance(c, t))
       => (/\ lastCall'.result = "Inheritance already triggered"
           /\ UNCHANGED <<balances, allowances, transfers>>)]_vars

\* C4: once triggered, every trigger call fails and moves no tokens; it fails
\* with "Inheritance already triggered" unless the contract is paused, and
\* with EnforcedPause while it is paused.
C4_SecondTriggerFails ==
  [][\A c \in Callers, t \in TokenAddresses :
       (isTriggered /\ triggerInheritance(c, t))
       => (/\ lastCall'.result =
                IF paused THEN "EnforcedPause" ELSE "Inheritance already triggered"
           /\ UNCHANGED <<balances, allowances, transfers, isTriggered>>)]_vars

\* A trigger has been rejected as already triggered although its caller holds
\* tokens, has approved them and a nominee is set.
C4_Rejected ==
  /\ lastCall = Call("triggerInheritance", "Inheritance already triggered")
  /\ isTriggered
  /\ inheritor # ZeroAddress
  /\ \E c \in Callers : balances[c] > 0 /\ allowances[c] >= balances[c]

\* ---------------------------------------------------------- pipeline claims

\* C5: a valid notification for an address whose status is "processing" is
\* answered 409, schedules no timer, sends no broadcast and leaves the status
\* map as it is; and a status only becomes "processing" by a notification that
\* is answered 200.
C5_Deduplication ==
  /\ [][\A w \in WalletKeys :
          (processingStatus[w] = "processing" /\ DeathNotification(w, TRUE))
          => (/\ lastResponse' = 409
              /\ lastBroadcast' = NoBroadcast
              /\ UNCHANGED <<processingStatus, cycles, accepted, started>>)]_vars
  /\ [][\A w \in WalletKeys :
          (processingStatus[w] # "processing" /\ processingStatus'[w] = "processing")
          => (lastResponse' = 200 /\ accepted' = accepted + 1)]_vars

\* A notification has just been answered 409 while the one execution of its
\* address is still waiting for its timer.
C5_Duplicate ==
  /\ lastResponse = 409
  /\ lastBroadcast = NoBroadcast
  /\ accepted = 1
  /\ \E w \in WalletKeys :
       processingStatus[w] = "processing" /\ cycles[w] = <<NewCycle>>

\* The delayed executions, scheduled or running, of the wallet a.
alive(a) == {<<w, i>> \in WalletKeys \X (1..MaxEvents) : account[w] = a /\ i <= Len(cycles[w])}

\* C6: for a single subject wallet, no two delayed executions (a scheduled
\* timer or a running triggerInheritance call) are alive at the same time.
C6_NoOverlap == \A a \in Accounts : Cardinality(alive(a)) <= 1

\* C7: the status of an address changes only from idle, completed or failed
\* to processing, by a notification answered 200, and from processing to
\* completed or failed, by the end of its delayed execution; and a valid
\* notification for an address whose status is not processing is accepted.
C7_Transitions ==
  /\ [][\A w \in WalletKeys :
          processingStatus'[w] # processingStatus[w] =>
            \/ /\ getStatus(w) \in {"idle", "completed", "failed"}
               /\ processingStatus'[w] = "processing"
               /\ lastResponse' = 200
            \/ /\ processingStatus[w] = "processing"
               /\ processingStatus'[w] \in {"completed", "failed"}
               /\ Len(cycles'[w]) = Len(cycles[w]) - 1]_vars
  /\ [](\A w \in WalletKeys :
          getStatus(w) \in {"idle", "completed", "failed"}
          => notificationCode(w, TRUE) = 200)

\* An address whose first cycle failed is processing again, by a second
\* accepted notification.
C7_SecondCycle ==
  \E w \in WalletKeys :
    /\ processingStatus[w] = "processing"
    /\ accepted = 2
    /\ started = 1
    /\ lastResponse = 200
    /\ \A x \in WalletKeys \ {w} : processingStatus[x] = "none"

\* C8: every status "processing" leads to "completed" or "failed"; and a
\* delayed execution never ends without setting one of the two, an execution
\* that ends with an error setting "failed".
C8_Resolves ==
  /\ \A w \in WalletKeys :
       (processingStatus[w] = "processing")
         ~> (processingStatus[w] \in {"completed", "failed"})
  /\ [][\A w \in WalletKeys :
          Len(cycles'[w]) < Len(cycles[w]) =>
            /\ processingStatus'[w] \in {"completed", "failed"}
            /\ lastBroadcast'.wallet = w
            /\ lastBroadcast'.payload.status = processingStatus'[w]
            /\ lastBroadcast'.payload.error # "none" => processingStatus'[w] = "failed"]_vars

\* A chain call of a delayed execution has thrown and the status is "failed".
C8_FailedByException ==
  \E w \in WalletKeys :
    /\ processingStatus[w] = "failed"
    /\ cycles[w] = << >>
    /\ lastBroadcast = [wallet |-> w, payload |-> Payload("failed", FALSE, "null", "rpc error")]

\* Whether some accepted notification still waits for its timer.
timerPending == \E w \in WalletKeys : \E i \in 1..Len(cycles[w]) : cycles[w][i].pc = "timer"

\* C9: the triggerInheritance invocations started never outnumber the
\* notifications answered 200, equal them once no timer is pending, start one
\* at a time as a timer elapses, and a notification answered 400 or 409
\* schedules and starts nothing.
C9_OnePerAccepted ==
  /\ [](started <= accepted)
  /\ [](~timerPending => started = accepted)
  /\ [][started' # started => (started' = started + 1 /\ Timer)]_vars
  /\ [][lastResponse' \in {400, 409} => UNCHANGED <<cycles, started, accepted>>]_vars

\* Two notifications were accepted, rejected ones came in between, and both
\* executions have started.
C9_BothStarted ==
  /\ accepted = 2
  /\ started = 2
  /\ ~timerPending
  /\ lastResponse \in {400, 409}

\* The wallet keys that name none of the accounts whose key the backend holds.
Keyless ==
  {w \in WalletKeys :
     \A k \in 1..Len(hardhatAddresses) :
       toLowerCase(hardhatAddresses[k]) # toLowerCase(Text(w))}

\* C10: for a subject whose key the backend does not hold, no step of a cycle
\* and no /approve-tokens request sends a transaction or changes a balance or
\* an allowance; its cycles end at the signer lookup at the latest and none
\* of its approval requests is sent on.
C10_NoKeyNoTransaction ==
  /\ [][\A w \in Keyless :
          (CycleStep(w) \/ \E v \in 0..Supply : ApproveTokens(w, v))
          => (lastCall' = NoCall /\ UNCHANGED chainVars)]_vars
  /\ [](\A w \in Keyless : \A i \in 1..Len(cycles[w]) :
          cycles[w][i].pc \in {"timer", "getInheritor", "balanceOf"})
  /\ [](\A j \in 1..Len(approvals) : approvals[j].wallet \notin Keyless)

\* The cycle of a subject that holds tokens and whose key the backend does not
\* hold has ended at the signer lookup.
C10_NoSigner ==
  \E w \in Keyless :
    /\ processingStatus[w] = "failed"
    /\ balances[account[w]] > 0
    /\ inheritor # ZeroAddress
    /\ lastBroadcast.wallet = w
    /\ lastBroadcast.payload.error = "Backend does not have signing authority for this wallet"

\* The error of a subject the backend cannot sign for.
NoSigningAuthority == "Backend does not have signing authority for this wallet"

\* C11 as stated: the delayed execution of a subject whose key the backend
\* does not hold ends "failed" with the no-signing-authority error, whatever
\* the nominee and the balance are (chain reads that throw set aside).
C11_AlwaysNoSigningAuthority ==
  [][\A w \in Keyless :
       (Len(cycles'[w]) < Len(cycles[w]) /\ lastBroadcast'.payload.error # "rpc error")
       => (/\ processingStatus'[w] = "failed"
           /\ lastBroadcast'.payload.error = NoSigningAuthority)]_vars

\* C11: the delayed execution of a subject whose key the backend does not hold
\* ends "failed", with the error of the first check that fails: no inheritor
\* when the nominee read fails or is zero, no tokens when the balance is zero,
\* and the no-signing-authority error only when a nominee is set and the
\* subject holds tokens.
C11_FirstFailingCheck ==
  [][\A w \in Keyless :
       (Len(cycles[w]) = 1 /\ Len(cycles'[w]) = 0)
       => (/\ processingStatus'[w] = "failed"
           /\ lastBroadcast'.wallet = w
           /\ lastBroadcast'.payload.status = "failed"
           /\ lastBroadcast'.payload.error =
                CASE cycles[w][1].pc = "getInheritor" ->
                       "No inheritor nominated for this wallet"
                  [] lastBroadcast'.payload.error = "rpc error" -> "rpc error"
                  [] balances[account[w]] = 0 ->
                       "No tokens to transfer for this wallet"
                  [] OTHER -> NoSigningAuthority
           /\ cycles[w][1].pc \in {"getInheritor", "balanceOf"})]_vars

\* The cycle of a subject whose key the backend does not hold, and that holds
\* tokens, has ended with the no-inheritor error.
C11_KeylessNoInheritor ==
  \E w \in Keyless :
    /\ processingStatus[w] = "failed"
    /\ balances[account[w]] > 0
    /\ lastBroadcast.wallet = w
    /\ lastBroadcast.payload.error = "No inheritor nominated for this wallet"

\* C12: a delayed execution reaches the trigger only from an allowance read
\* that shows at least the balance it read; it sends an approval only after a
\* first read that shows less, the approval is for at least that balance and
\* is mined before the second read; a second read that shows less ends the
\* execution without a trigger; and the pipeline submits a trigger only from
\* an execution that has passed these reads.
C12_AllowanceBridge ==
  /\ [][\A w \in WalletKeys : \A i \in 1..Len(cycles[w]) :
          (Len(cycles'[w]) = Len(cycles[w]) /\ cycles'[w][i].pc # cycles[w][i].pc) =>
            /\ cycles'[w][i].pc = "triggerPending" =>
                 /\ cycles[w][i].pc \in {"allowance", "verifyAllowance"}
                 /\ cycles'[w][i].balance = cycles[w][i].balance
                 /\ allowances[account[w]] >= cycles[w][i].balance
                 /\ lastCall' = NoCall
            /\ cycles'[w][i].pc = "approvePending" =>
                 /\ cycles[w][i].pc = "allowance"
                 /\ allowances[account[w]] < cycles[w][i].balance
            /\ cycles'[w][i].pc = "verifyAllowance" =>
                 /\ cycles[w][i].pc = "approvePending"
                 /\ lastCall' = Call("approve", "ok")
                 /\ allowances'[account[w]] >= cycles[w][i].balance]_vars
  /\ [][\A w \in WalletKeys : \A i \in 1..Len(cycles[w]) :
          (VerifyAllowance(w, i) /\ allowances[account[w]] < cycles[w][i].balance)
          => (Len(cycles'[w]) < Len(cycles[w]) /\ lastCall' = NoCall
              /\ processingStatus'[w] = "failed")]_vars
  /\ [][\A w \in WalletKeys :
          (CycleStep(w) /\ lastCall'.op = "triggerInheritance")
          => \E i \in 1..Len(cycles[w]) : cycles[w][i].pc = "triggerPending"]_vars
  /\ [](\A w \in WalletKeys : \A i \in 1..Len(cycles[w]) :
          cycles[w][i].pc \in {"approvePending", "verifyAllowance", "triggerPending"}
          => cycles[w][i].balance > 0)

\* An execution whose first allowance read was short has approved, read the
\* allowance again and is about to submit the trigger.
C12_Bridged ==
  \E w \in WalletKeys :
    /\ Len(cycles[w]) = 1
    /\ cycles[w][1].pc = "triggerPending"
    /\ allowances[account[w]] = cycles[w][1].balance
    /\ cycles[w][1].balance = Supply
    /\ events = 2

\* The signed submissions of the account a that are sent and not yet mined:
\* those of its delayed executions and those of its approval requests.
inFlight(a) ==
  {<<w, i>> \in WalletKeys \X (1..MaxEvents) :
     /\ account[w] = a
     /\ i <= Len(cycles[w])
     /\ cycles[w][i].pc \in {"approvePending", "triggerPending"}}
  \cup {<<"approve-tokens", j>> : j \in {k \in 1..Len(approvals) : account[approvals[k].wallet] = a}}

\* C13: at no time are two signed submissions of one subject in flight.
C13_Serialized == \A a \in Accounts : Cardinality(inFlight(a)) <= 1

\* C14: the outcome of a subject's cycle depends on that subject's nominee,
\* balance, allowance and signing key alone: with the contract unpaused, a
\* nominee set, a positive balance covered by the allowance and no transfer
\* made from the subject's account, its trigger transaction succeeds and its
\* cycle completes, whether the contract is untouched or the cycle of another
\* subject has completed before.
C14_Independent ==
  [][\A w \in WalletKeys \ Keyless : \A i \in 1..Len(cycles[w]) :
       (/\ TriggerMined(w, i)
        /\ lastCall'.op = "triggerInheritance"
        /\ ~paused
        /\ inheritor # ZeroAddress
        /\ balances[account[w]] > 0
        /\ allowances[account[w]] >= balances[account[w]]
        /\ \A k \in 1..Len(transfers) : transfers[k].from # account[w]
        /\ isTriggered =>
             \E b \in WalletKeys :
               account[b] # account[w] /\ processingStatus[b] = "completed")
       => processingStatus'[w] = "completed"]_vars

\* C15: once triggered, no nominate, cancel or trigger call succeeds and the
\* nominee never changes.
C15_Terminal ==
  [][isTriggered =>
       /\ inheritor' = inheritor
       /\ lastCall'.op \in {"nominateInheritor", "cancelNomination", "triggerInheritance"}
          => lastCall'.result # "ok"]_vars

\* C16: triggered starts false and never goes from true to false.
C16_Monotonic ==
  /\ ~isTriggered
  /\ [][isTriggered => isTriggered']_vars

\* The contract is triggered, and since then it has been paused, the
\* nomination cancelled and the ownership handed over.
C16_StillTriggered ==
  /\ isTriggered
  /\ paused
  /\ inheritor = ZeroAddress
  /\ owner = Account1
  /\ transfers = <<[from |-> Account0, to |-> Stranger, value |-> Supply]>>

\* C17: a call that fails changes nothing: nominee, triggered, paused, owner,
\* balances, allowances and the transfers made are as before.
C17_AllOrNothing ==
  [][(lastCall'.op \notin {"none", "deploy"} /\ lastCall'.result # "ok")
       => UNCHANGED chainVars]_vars

\* A trigger whose token transfer was rejected has left the contract
\* untriggered and the caller's tokens in place.
C17_RejectedTransfer ==
  /\ lastCall.op = "triggerInheritance"
  /\ lastCall.result \in {"Token transfer failed", "ERC20InsufficientAllowance"}
  /\ ~isTriggered
  /\ inheritor = Account1
  /\ balances[Account0] = Supply
  /\ transfers = << >>

\* C18 as stated: with the zero address as nominee, every trigger call fails
\* with "No inheritor nominated" and moves no tokens.
C18_AlwaysNoInheritor ==
  [][\A c \in Callers, t \in TokenAddresses :
       (inheritor = ZeroAddress /\ triggerInheritance(c, t))
       => (/\ lastCall'.result = "No inheritor nominated"
           /\ UNCHANGED <<balances, allowances, transfers>>)]_vars

\* C18: with the zero address as nominee, every trigger call fails and moves
\* no tokens, whatever the balance and the allowance; it fails with "No
\* inheritor nominated" when the contract is neither paused nor triggered,
\* with EnforcedPause when paused, and otherwise with "Inheritance already
\* triggered".
C18_NoInheritor ==
  [][\A c \in Callers, t \in TokenAddresses :
       (inheritor = ZeroAddress /\ triggerInheritance(c, t))
       => (/\ lastCall'.result =
                IF paused THEN "EnforcedPause"
                ELSE IF isTriggered THEN "Inheritance already triggered"
                ELSE "No inheritor nominated"
           /\ UNCHANGED chainVars)]_vars

\* A trigger has failed for want of a nominee although a caller holds tokens
\* and has approved them.
C18_Unnominated ==
  /\ lastCall = Call("triggerInheritance", "No inheritor nominated")
  /\ inheritor = ZeroAddress
  /\ ~isTriggered
  /\ \E c \in Callers : balances[c] > 0 /\ allowances[c] >= balances[c]

\* C19 as stated: with a nominee set, a trigger by a caller whose balance of
\* the token is zero fails with "No tokens to transfer" and triggered stays
\* false.
C19_AlwaysNoTokens ==
  [][\A c \in Callers :
       (inheritor # ZeroAddress /\ balances[c] = 0 /\ triggerInheritance(c, MockERC20))
       => (/\ lastCall'.result = "No tokens to transfer"
           /\ ~isTriggered')]_vars

\* C19: with a nominee set, a trigger by a caller whose balance of the token
\* is zero fails and changes nothing, whatever the allowance; it fails with
\* "No tokens to transfer" when the contract is neither paused nor triggered,
\* and triggered then stays false.
C19_NoTokens ==
  [][\A c \in Callers :
       (inheritor # ZeroAddress /\ balances[c] = 0 /\ triggerInheritance(c, MockERC20))
       => (/\ lastCall'.result =
                IF paused THEN "EnforcedPause"
                ELSE IF isTriggered THEN "Inheritance already triggered"
                ELSE "No tokens to transfer"
           /\ UNCHANGED chainVars)]_vars

\* A trigger has failed for want of tokens although a nominee is set and the
\* caller's allowance is the whole supply.
C19_Empty ==
  /\ lastCall = Call("triggerInheritance", "No tokens to transfer")
  /\ inheritor # ZeroAddress
  /\ ~isTriggered
  /\ \E c \in Callers : balances[c] = 0 /\ allowances[c] = Supply

\* C20: a successful nominate stores its argument, a nominate of the zero
\* address is rejected, a successful cancel stores the zero address, and
\* nothing else changes the nominee, which starts as the zero address.
C20_Nominee ==
  /\ inheritor = ZeroAddress
  /\ [][\A c \in Callers, n \in Addresses :
          nominateInheritor(c, n) =>
            IF lastCall'.result = "ok"
              THEN n # ZeroAddress /\ inheritor' = n
              ELSE inheritor' = inheritor]_vars
  /\ [][\A c \in Callers :
          (cancelNomination(c) /\ lastCall'.result = "ok") => inheritor' = ZeroAddress]_vars
  /\ [][inheritor' # inheritor =>
          /\ lastCall'.op \in {"nominateInheritor", "cancelNomination"}
          /\ lastCall'.result = "ok"]_vars

\* A second nomination has replaced the first, after a trigger has run.
C20_Renominated ==
  /\ lastCall = Call("nominateInheritor", "ok")
  /\ inheritor = Account1
  /\ transfers = <<[from |-> Account0, to |-> Stranger, value |-> Supply]>>

\* C21: while the contract is paused, nominateInheritor, cancelNomination and
\* triggerInheritance all fail with EnforcedPause and change nothing; pause
\* and unpause themselves touch neither the nominee nor the triggered flag
\* nor any token state, and nothing changes the nominee, the flag or the
\* contract's transfers during the pause, so after unpause the three
\* operations find the state they had before the pause.
C21_PausedBlocks ==
  [][ /\ ( /\ paused
           /\ lastCall'.op \in {"nominateInheritor", "cancelNomination",
                                "triggerInheritance"} )
         => /\ lastCall'.result = "EnforcedPause"
            /\ UNCHANGED chainVars
      /\ lastCall'.op \in {"pause", "unpause"}
         => UNCHANGED <<inheritor, isTriggered, balances, allowances, transfers>>
      /\ paused => UNCHANGED <<inheritor, isTriggered, transfers>>
    ]_vars

\* A cancellation was rejected while the contract is paused with a nominee set.
C21_RejectedWhilePaused ==
  /\ paused
  /\ inheritor # ZeroAddress
  /\ lastCall = Call("cancelNomination", "EnforcedPause")

\* C22: pause and unpause are owner-only: a call by any other account fails
\* with OwnableUnauthorizedAccount and leaves the paused flag (and the rest of
\* the contract) unchanged, and the flag only ever changes in a pause or
\* unpause sent by the owner.
C22_OwnerOnlyPause ==
  [][ /\ \A c \in Callers :
           (c # owner /\ (pause(c) \/ unpause(c)))
           => /\ lastCall'.result = "OwnableUnauthorizedAccount"
              /\ UNCHANGED chainVars
      /\ paused' # paused
         => /\ lastCall'.result = "ok"
            /\ pause(owner) \/ unpause(owner)
    ]_vars

\* After ownership moved to account #1, the deployer's pause was rejected.
C22_FormerOwnerRejected ==
  /\ owner = Account1
  /\ ~paused
  /\ lastCall = Call("pause", "OwnableUnauthorizedAccount")

\* ---------------------------------------------------------- broadcast claims

\* C23: when the trigger submission succeeds, the status of the wallet becomes
\* 'completed' and the statusUpdate of that step is a 'completed' one that
\* carries the transaction reference, the token address and the nominee
\* address.
C23_CompletedBroadcast ==
  [][\A w \in WalletKeys : \A i \in 1..Len(cycles[w]) :
       (TriggerMined(w, i) /\ lastCall' = Call("triggerInheritance", "ok"))
       => /\ processingStatus'[w] = "completed"
          /\ lastBroadcast'.wallet = w
          /\ lastBroadcast'.payload.status = "completed"
          /\ lastBroadcast'.payload.transactionHash
          /\ lastBroadcast'.payload.nomineeAddress \in Accounts
          /\ lastBroadcast'.payload.tokenAddress = MockERC20]_vars

\* C24: on every failure of a delayed execution the status of the wallet
\* becomes 'failed' and the step emits one 'failed' statusUpdate that carries
\* an error description and, whenever the execution had already read the
\* nominee, the nominee address.
C24_FailedBroadcast ==
  [][\A w \in WalletKeys : \A i \in 1..Len(cycles[w]) :
       ( /\ CycleStepAt(w, i)
         /\ Len(cycles'[w]) < Len(cycles[w])
         /\ lastCall' # Call("triggerInheritance", "ok") )
       => /\ processingStatus'[w] = "failed"
          /\ lastBroadcast'.wallet = w
          /\ lastBroadcast'.payload.status = "failed"
          /\ lastBroadcast'.payload.error # "none"
          /\ cycles[w][i].pc \notin {"timer", "getInheritor"}
             => lastBroadcast'.payload.nomineeAddress = cycles[w][i].inheritor]_vars

\* The errors that say no inheritor is nominated: the pipeline's own, after
\* its nominee read, and the contract's revert reason.
C25_NoInheritorErrors ==
  {"No inheritor nominated for this wallet", "No inheritor nominated"}

\* C25 as stated: whenever a delayed execution ends while the nominee is the
\* zero address (never set, or cancelled after the notification was accepted),
\* and no call to the chain threw for lack of an answer, the status becomes
\* 'failed' with an error indicating that no inheritor is nominated, and no
\* token balance changes.
C25_AlwaysNoInheritor ==
  [][\A w \in WalletKeys : \A i \in 1..Len(cycles[w]) :
       ( /\ CycleStepAt(w, i)
         /\ inheritor = ZeroAddress
         /\ Len(cycles'[w]) < Len(cycles[w])
         /\ lastBroadcast'.payload.error \notin {"rpc error", "Failed to approve tokens"} )
       => /\ processingStatus'[w] = "failed"
          /\ lastBroadcast'.payload.error \in C25_NoInheritorErrors
          /\ balances' = balances]_vars

\* C25: a cancellation on-chain leaves the scheduled execution in place; every
\* step a delayed execution takes while the nominee is the zero address moves
\* no token and never completes the cycle; the nominee read then ends the
\* cycle 'failed' with the pipeline's no-inheritor error, and a trigger
\* transaction sent after a later cancellation ends it 'failed' with the
\* contract's no-inheritor error unless the contract is paused or already
\* triggered, whose errors come first.
C25_NoInheritor ==
  /\ [][lastCall'.op = "cancelNomination" => UNCHANGED <<cycles, processingStatus, started>>]_vars
  /\ [][\A w \in WalletKeys : \A i \in 1..Len(cycles[w]) :
          (CycleStepAt(w, i) /\ inheritor = ZeroAddress)
          => /\ processingStatus'[w] # "completed"
             /\ balances' = balances
             /\ GetInheritor(w, i)
                => /\ processingStatus'[w] = "failed"
                   /\ lastBroadcast'.payload.error = "No inheritor nominated for this wallet"
             /\ lastCall'.op = "triggerInheritance"
                => /\ processingStatus'[w] = "failed"
                   /\ lastBroadcast'.payload.error =
                        IF paused THEN "EnforcedPause"
                        ELSE IF isTriggered THEN "Inheritance already triggered"
                        ELSE "No inheritor nominated"]_vars

\* A cycle read its nominee, the nomination was cancelled, and the cycle's
\* trigger transaction reverted for the missing nominee.
C25_CancelledInTheInterim ==
  /\ inheritor = ZeroAddress
  /\ lastCall = Call("triggerInheritance", "No inheritor nominated")
  /\ lastBroadcast.wallet \in WalletKeys
  /\ lastBroadcast.payload.error = "No inheritor nominated"
  /\ lastBroadcast.payload.nomineeAddress \in Accounts

\* C26: no automatic retry: while the status of a wallet key is 'failed' no
\* delayed execution is scheduled or running for it, every step of a delayed
\* execution (timer, contract read, submission) belongs to a key whose status
\* is 'processing', and the only step that schedules an execution for a
\* failed key is the acceptance of a new notification for it.
C26_NoRetry ==
  /\ [](\A w \in WalletKeys : processingStatus[w] = "failed" => cycles[w] = << >>)
  /\ [][\A w \in WalletKeys : CycleStep(w) => processingStatus[w] = "processing"]_vars
  /\ [][\A w \in WalletKeys :
          (processingStatus[w] = "failed" /\ cycles'[w] # << >>)
          => /\ DeathNotification(w, TRUE)
             /\ lastResponse' = 200
             /\ accepted' = accepted + 1]_vars

\* A cycle failed for lack of a nominee, a nominee was set afterwards, and
\* nothing is scheduled for the failed key.
C26_FailedAndIdle ==
  /\ lastCall = Call("nominateInheritor", "ok")
  /\ \E w \in WalletKeys : processingStatus[w] = "failed" /\ cycles[w] = << >>
  /\ started > 0

\* ------------------------------------------------------------- intake claims

\* C27: a notification whose walletAddress is missing or malformed, or whose
\* eventType is missing, is answered 400 and has no effect: the status map is
\* unchanged, no timer is started, nothing is broadcast and the chain is not
\* touched.
C27_InvalidRejected ==
  [][\A w \in WalletInputs, e \in BOOLEAN :
       (DeathNotification(w, e) /\ (missing[w] \/ w \notin WalletKeys \/ ~e))
       => /\ lastResponse' = 400
          /\ lastBroadcast' = NoBroadcast
          /\ UNCHANGED <<processingStatus, cycles, accepted, started, chainVars>>]_vars

\* A request was answered 400 while an accepted notification waits for its
\* timer, and the pending cycle is all there is.
C27_RejectedWhilePending ==
  /\ lastResponse = 400
  /\ accepted = 1
  /\ \E w \in WalletKeys : processingStatus[w] = "processing" /\ cycles[w] = <<NewCycle>>

\* C28: the step that accepts a notification sets the status of the wallet to
\* 'processing', answers 200 and emits the 'processing' statusUpdate, and
\* only schedules the execution: it makes no contract call and starts no
\* read, which wait for the timer. A status query right after the
\* acknowledgement answers 'processing'. A 'completed' or 'failed'
\* statusUpdate is emitted only by an execution whose timer has fired, for a
\* wallet whose status is 'processing', so the 'processing' statusUpdate of
\* the cycle comes first.
C28_AcceptanceOrder ==
  /\ [][\A w \in WalletInputs :
          (DeathNotification(w, TRUE) /\ lastResponse' = 200)
          => /\ processingStatus'[w] = "processing"
             /\ lastBroadcast' = [wallet |-> w,
                                  payload |-> Payload("processing", FALSE, "undefined", "none")]
             /\ cycles'[w] = Append(cycles[w], [pc |-> "timer", inheritor |-> ZeroAddress,
                                                 balance |-> 0, allowance |-> 0])
             /\ lastCall' = NoCall
             /\ UNCHANGED <<chainVars, started>>]_vars
  /\ [](lastResponse = 200 => getStatus(lastBroadcast.wallet) = "processing")
  /\ [][\A w \in WalletKeys : \A i \in 1..Len(cycles[w]) :
          (CycleStepAt(w, i) /\ (lastCall' # NoCall \/ lastBroadcast' # NoBroadcast))
          => /\ cycles[w][i].pc # "timer"
             /\ started > 0
             /\ processingStatus[w] = "processing"]_vars
  /\ [][lastBroadcast' # NoBroadcast /\ lastBroadcast'.payload.status \in {"completed", "failed"}
        => /\ lastResponse' = NoResponse
           /\ \E w \in WalletKeys : lastBroadcast'.wallet = w /\ CycleStep(w)]_vars

\* A second notification for a wallet was just accepted after its first cycle
\* ended: the status is 'processing' again and the new execution waits for
\* its timer.
C28_Acknowledged ==
  /\ lastResponse = 200
  /\ accepted = 2
  /\ started = 1
  /\ \E w \in WalletKeys :
       /\ lastBroadcast = [wallet |-> w,
                           payload |-> Payload("processing", FALSE, "undefined", "none")]
       /\ getStatus(w) = "processing"
       /\ cycles[w] = <<NewCycle>>

\* ------------------------------------------------------------- client claims

\* C29: the listener receives a statusUpdate exactly when it had joined the
\* room of the broadcast's address before the step that emits it: every
\* broadcast for a subscribed address is delivered, none for another address
\* is, and the step that subscribes delivers nothing (no replay of earlier
\* broadcasts). A broadcast for an address without subscriber reaches nobody,
\* and the status map is written all the same.
C29_Delivery ==
  /\ [][lastBroadcast' # NoBroadcast
        => received' = IF lastBroadcast'.wallet \in subscribed
                         THEN {lastBroadcast'.payload} ELSE {}]_vars
  /\ [](received # {} => lastBroadcast.wallet \in subscribed)
  /\ [][subscribed' # subscribed => received' = {}]_vars
  /\ [][\A w \in WalletKeys \ subscribed :
          lastBroadcast'.wallet = w
          => /\ received' = {}
             /\ processingStatus'[w] = lastBroadcast'.payload.status]_vars

\* The listener, subscribed to account #0, has received the 'failed'
\* statusUpdate of its cycle.
C29_Delivered ==
  /\ "account0" \in subscribed
  /\ lastBroadcast.wallet = "account0"
  /\ \E payload \in received : payload.status = "failed"

\* C30: the status map changes only in the step that accepts a notification
\* and in steps of a delayed execution; GET /status, POST /approve-tokens,
\* subscribe and disconnect leave it as it is. GET /status answers a
\* well-formed address with the stored status, or 'idle' when the map has no
\* entry, and a malformed one with 400; the status it returns is always one
\* of idle, processing, completed, failed.
C30_StatusMap ==
  /\ [][processingStatus' # processingStatus
        => \E w \in WalletKeys :
             \/ DeathNotification(w, TRUE) /\ lastResponse' = 200
             \/ CycleStep(w)]_vars
  /\ [][( \/ \E w \in ClientInputs : statusEndpoint(w) \/ subscribe(w)
          \/ disconnect
          \/ \E w \in WalletInputs, v \in 0..Supply : ApproveTokens(w, v)
          \/ \E j \in 1..Len(approvals) : ApproveTokensMined(j) )
        => UNCHANGED <<processingStatus, cycles>>]_vars
  /\ [][\A w \in ClientInputs :
          statusEndpoint(w)
          => lastQuery' = IF w \notin WalletKeys THEN [code |-> 400, status |-> "none"]
                          ELSE IF processingStatus[w] = "none"
                            THEN [code |-> 200, status |-> "idle"]
                          ELSE [code |-> 200, status |-> processingStatus[w]]]_vars
  /\ [](lastQuery.code = 200
        => lastQuery.status \in {"idle", "processing", "completed", "failed"})
  /\ [](\A w \in WalletKeys :
          processingStatus[w] \in {"none", "processing", "completed", "failed"})

\* A status query for account #0 answered 'idle' while the cycle of another
\* wallet is processing.
C30_IdleByDefault ==
  /\ lastQuery = [code |-> 200, status |-> "idle"]
  /\ processingStatus["account0"] = "none"
  /\ processingStatus["stranger"] = "processing"

\* ------------------------------------------------------ cross-cutting claims

\* C31: the acknowledgement of an accepted notification reports a
\* processingDelay of 10000 milliseconds, and the reported value is the delay
\* the timer of the delayed execution is set to.
C31_ReportedDelay ==
  [](lastResponse = 200
     => /\ responsePayload.processingDelay = 10000
        /\ responsePayload.processingDelay = timerDelay)

\* The delayed executions of account a that have found its signing key and
\* not ended yet.
C32_Signing(a) ==
  {<<w, i>> \in WalletKeys \X (1..MaxEvents) :
     /\ account[w] = a
     /\ i <= Len(cycles[w])
     /\ cycles[w][i].pc \in {"allowance", "approvePending", "verifyAllowance",
                             "triggerPending"}}

\* C32: deduplication goes by the account an address string names: while the
\* status of one spelling of an account is 'processing', a notification that
\* names the same account in any spelling is answered 409 and schedules
\* nothing, and at most one delayed execution signs for an account at a time.
C32_SameSubject ==
  /\ [][\A w1 \in WalletKeys, w2 \in WalletKeys :
          ( /\ account[w1] = account[w2]
            /\ processingStatus[w1] = "processing"
            /\ DeathNotification(w2, TRUE) )
          => (lastResponse' = 409 /\ UNCHANGED cycles)]_vars
  /\ [](\A a \in Accounts : Cardinality(C32_Signing(a)) <= 1)

\* C33: the nomineeAddress of a 'completed' statusUpdate is the account the
\* trigger transaction of that cycle moved the tokens to.
C33_ReportedNominee ==
  [][\A w \in WalletKeys : \A i \in 1..Len(cycles[w]) :
       (TriggerMined(w, i) /\ processingStatus'[w] = "completed")
       => lastBroadcast'.payload.nomineeAddress = transfers'[Len(transfers')].to]_vars

\* C34: against the one deployed contract, the status of a key becomes
\* 'completed' only in a step that sets the triggered flag, which is never
\* cleared, so at most one cycle of all keys ever completes; no two keys are
\* 'completed' at once; and every step a delayed execution takes once the
\* flag is set completes nothing and moves no token, so a cycle that runs
\* after the completed one ends 'failed'.
C34_OneCompletion ==
  /\ [][\A w \in WalletKeys :
          (processingStatus'[w] = "completed" /\ processingStatus[w] # "completed")
          => (~isTriggered /\ isTriggered')]_vars
  /\ [][isTriggered => isTriggered']_vars
  /\ [](Cardinality({w \in WalletKeys : processingStatus[w] = "completed"}) <= 1)
  /\ [][\A w \in WalletKeys :
          (CycleStep(w) /\ isTriggered)
          => /\ processingStatus'[w] \in {"processing", "failed"}
             /\ UNCHANGED <<balances, transfers>>]_vars

\* After the cycle of one key completed, the cycle of another key ran and
\* failed.
C34_LaterCycleFailed ==
  /\ isTriggered
  /\ Len(transfers) = 1
  /\ \E w1 \in WalletKeys, w2 \in WalletKeys :
       /\ processingStatus[w1] = "completed"
       /\ processingStatus[w2] = "failed"
       /\ lastBroadcast.wallet = w2

\* C35: whenever the status of a key is 'completed', the triggered flag is
\* set and the one transfer the contract made came out of that key's account;
\* and a delayed execution that ends 'failed' has moved no token with its
\* trigger transaction.
C35_Consistent ==
  /\ [](\A w \in WalletKeys :
          processingStatus[w] = "completed"
          => /\ isTriggered
             /\ Len(transfers) = 1
             /\ transfers[1].from = account[w])
  /\ [][\A w \in WalletKeys : \A i \in 1..Len(cycles[w]) :
          (TriggerMined(w, i) /\ processingStatus'[w] = "failed")
          => UNCHANGED <<balances, transfers, isTriggered>>]_vars

C37_BroadcastPerWrite ==
  /\ [][\A w \in WalletKeys :
          processingStatus'[w] # processingStatus[w]
          => /\ lastBroadcast'.wallet = w
             /\ lastBroadcast'.payload.status = processingStatus'[w]]_vars
  /\ [][lastBroadcast' # NoBroadcast
        => /\ lastBroadcast'.wallet \in WalletKeys
           /\ processingStatus'[lastBroadcast'.wallet] # processingStatus[lastBroadcast'.wallet]
           /\ processingStatus'[lastBroadcast'.wallet] = lastBroadcast'.payload.status
           /\ \A w \in WalletKeys \ {lastBroadcast'.wallet} :
                processingStatus'[w] = processingStatus[w]]_vars
  /\ [](lastBroadcast # NoBroadcast
        => getStatus(lastBroadcast.wallet) = lastBroadcast.payload.status)

\* The 'completed' statusUpdate of a key's second status write has just been
\* emitted.
C37_CompletedBroadcast ==
  /\ lastBroadcast # NoBroadcast
  /\ lastBroadcast.payload.status = "completed"
  /\ getStatus(lastBroadcast.wallet) = "completed"

\* C38: token conservation: the balances always add up to the supply; a
\* successful trigger changes no balance but the caller's and the nominee's;
\* and an operation that fails changes no balance.
C38_Conservation ==
  /\ [](balances[Account0] + balances[Account1] + balances[Stranger] = Supply)
  /\ [][\A c \in Callers :
          (triggerInheritance(c, MockERC20) /\ lastCall'.result = "ok")
          => \A x \in Accounts \ {c, inheritor} : balances'[x] = balances[x]]_vars
  /\ [][lastCall'.result \notin {"ok", "none"} => balances' = balances]_vars

\* A trigger has moved tokens between two accounts while a third one holds
\* tokens of its own.
C38_Moved ==
  /\ lastCall = Call("triggerInheritance", "ok")
  /\ Len(transfers) = 1
  /\ transfers[1].from # transfers[1].to
  /\ \E x \in Accounts \ {transfers[1].from, transfers[1].to} : balances[x] > 0

\* C39: the contract moves tokens only out of the account that called
\* trigger: every transfer it makes comes from the caller of a successful
\* trigger, and a balance that goes down does so in that account's own
\* successful trigger or in its own token transfer, whatever allowance other
\* accounts have granted and whoever owns the contract.
C39_CallerOnly ==
  /\ [][Len(transfers') > Len(transfers)
        => \E c \in Callers :
             /\ triggerInheritance(c, MockERC20)
             /\ lastCall'.result = "ok"
             /\ transfers'[Len(transfers')].from = c]_vars
  /\ [][\A x \in Accounts :
          balances'[x] < balances[x]
          => /\ x \in Callers
             /\ lastCall'.result = "ok"
             /\ \/ triggerInheritance(x, MockERC20)
                \/ \E to \in Addresses : transfer(x, to, 1)]_vars

\* Account #1, which does not own the contract, triggered and its tokens
\* moved, while the owner, who has granted the contract its full allowance,
\* keeps its tokens.
C39_OwnerKeeps ==
  /\ lastCall = Call("triggerInheritance", "ok")
  /\ owner = Account0
  /\ transfers[Len(transfers)].from = Account1
  /\ allowances[Account0] = Supply
  /\ balances[Account0] > 0

\* C40: a delayed execution that ends 'failed' has left the chain as it found
\* it: the contract state and every balance are unchanged, and the allowance
\* of the subject toward the contract is the one the execution read before it
\* approved anything.
C40_NoSideEffect ==
  [][\A w \in WalletKeys : \A i \in 1..Len(cycles[w]) :
       (CycleStepAt(w, i) /\ processingStatus'[w] = "failed")
       => /\ UNCHANGED <<owner, inheritor, isTriggered, paused, balances, transfers>>
          /\ IF cycles[w][i].pc \in {"approvePending", "verifyAllowance", "triggerPending"}
               THEN allowances'[account[w]] = cycles[w][i].allowance
               ELSE allowances' = allowances]_vars

====
